---- MODULE Spec2Model ----
(***************************************************************************)
(* A model of the Messer session (messer.js, helpers.js): getCredentials,  *)
(* the caches, the name index, the post-login bulk fetch, the name and id  *)
(* lookups, the command dispatcher and the listener of backend events.     *)
(*                                                                         *)
(* JavaScript strings are sequences of one-character strings, so that      *)
(* trim, split, toLowerCase and startsWith are computed, not assumed.      *)
(* A callback of the backend is one action: the whole handler, together    *)
(* with the promise continuations it schedules (they run as microtasks     *)
(* before any other callback can be delivered).                            *)
(***************************************************************************)
EXTENDS Integers, Sequences, FiniteSets, TLC

VARIABLES
  pc,           \* position of the start() chain
  api,          \* this.api is set
  user,         \* this.user
  userCache,    \* this.userCache, by userID
  threadCache,  \* this.threadCache, by threadID
  threadMap,    \* this.threadMap: the property list of the object, in creation order
  fetchUser,    \* the local `user` of fetchCurrentUser
  fetchState,   \* the promise of fetchCurrentUser: pending, resolved, rejected
  friends,      \* the contact list the backend answered with (history)
  failedStep,   \* which backend step answered with an error (history)
  reqCount,     \* backend requests issued so far, by operation
  terminal,     \* the lines written by log()
  listening,    \* api.listen has been called
  replStarted,  \* repl.start has been called
  calls,        \* the getThreadById invocations: their promises
  inflight,     \* the getThreadInfo requests not yet answered
  cmds,         \* the processCommand invocations of the read-eval loop
  events,       \* the deliveries of the listener callback of api.listen
  credentials,  \* the promise of getCredentials and the files it asked for
  last          \* the operation performed by the last step and its outcome

vars == <<pc, api, user, userCache, threadCache, threadMap, fetchUser, fetchState,
          friends, failedStep, reqCount, terminal, listening, replStarted,
          calls, inflight, cmds, events, credentials, last>>

sessionVars == <<pc, api, user, userCache, threadMap, fetchUser, fetchState,
                 friends, failedStep, listening, replStarted, events, credentials>>

(***************************************************************************)
(* Bounds of the model.                                                    *)
(***************************************************************************)
MaxFriends == 2
MaxThreads == 2
MaxCalls == 2
MaxCommands == 2
MaxEvents == 2

(***************************************************************************)
(* JavaScript values.                                                      *)
(***************************************************************************)
Undefined == <<"<undefined>">>
Null == <<"<null>">>
EmptyStr == <<>>
StrUndefined == <<"u", "n", "d", "e", "f", "i", "n", "e", "d">>

UpperCase == <<"A", "B", "C", "D", "E", "F", "G", "H", "I", "J", "K", "L", "M",
               "N", "O", "P", "Q", "R", "S", "T", "U", "V", "W", "X", "Y", "Z">>
LowerCaseOf == <<"a", "b", "c", "d", "e", "f", "g", "h", "i", "j", "k", "l", "m",
                 "n", "o", "p", "q", "r", "s", "t", "u", "v", "w", "x", "y", "z">>
Digits == <<"0", "1", "2", "3", "4", "5", "6", "7", "8", "9">>
WhiteSpace == {" ", "\t", "\n", "\r"}

\* String.prototype.toLowerCase
LowerTable == [c \in {UpperCase[i] : i \in 1..Len(UpperCase)} |->
                 LowerCaseOf[CHOOSE i \in 1..Len(UpperCase) : UpperCase[i] = c]]

ToLowerChar(c) == IF c \in DOMAIN LowerTable THEN LowerTable[c] ELSE c

ToLowerCase(s) == [i \in 1..Len(s) |-> ToLowerChar(s[i])]

\* String.prototype.startsWith
StartsWith(s, p) == Len(p) <= Len(s) /\ SubSeq(s, 1, Len(p)) = p

\* ToPropertyKey: the string a value is turned into when it indexes an object
ToKey(v) == IF v = Undefined THEN StrUndefined ELSE v

\* a || b
OrElse(a, b) == IF a = Undefined \/ a = Null \/ a = EmptyStr THEN b ELSE a

(***************************************************************************)
(* A plain object used as a map: a sequence of [key, val] in the order the *)
(* properties were created. Object.keys lists the array-index keys first,  *)
(* in ascending numeric order, and then the other keys in creation order.  *)
(***************************************************************************)
DigitTable == [c \in {Digits[i] : i \in 1..Len(Digits)} |->
                 (CHOOSE i \in 1..Len(Digits) : Digits[i] = c) - 1]

IsDigit(c) == c \in DOMAIN DigitTable
DigitVal(c) == DigitTable[c]

\* 2^32 - 2, the largest array index, digit by digit
MaxArrayIndex == <<4, 2, 9, 4, 9, 6, 7, 2, 9, 4>>

\* the digit strings a and b of equal length: a is below b, or equal to it
RECURSIVE DigitsLeq(_, _)
DigitsLeq(a, b) ==
  IF a = <<>> THEN TRUE
  ELSE IF Head(a) # Head(b) THEN Head(a) < Head(b)
  ELSE DigitsLeq(Tail(a), Tail(b))

DigitVals(s) == [i \in 1..Len(s) |-> DigitVal(s[i])]

\* a canonical numeric string below 2^32 - 1
IsArrayIndex(k) ==
  /\ Len(k) > 0
  /\ \A i \in 1..Len(k) : IsDigit(k[i])
  /\ (Len(k) = 1 \/ k[1] # "0")
  /\ \/ Len(k) < Len(MaxArrayIndex)
     \/ Len(k) = Len(MaxArrayIndex) /\ DigitsLeq(DigitVals(k), MaxArrayIndex)

\* numeric order of two array-index keys (canonical: longer is larger)
IndexLess(a, b) ==
  \/ Len(a) < Len(b)
  \/ Len(a) = Len(b) /\ a # b /\ DigitsLeq(DigitVals(a), DigitVals(b))

CreationOrderKeys(obj) == [i \in 1..Len(obj) |-> obj[i].key]

IsIndexKey(k) == IsArrayIndex(k)
IsNameKey(k) == ~IsArrayIndex(k)

\* a map that lists its keys in creation order
ObjectKeys_CreationOrder(obj) == CreationOrderKeys(obj)

ObjectKeys(obj) ==
  SortSeq(SelectSeq(CreationOrderKeys(obj), IsIndexKey), IndexLess)
    \o SelectSeq(CreationOrderKeys(obj), IsNameKey)

HasKey(obj, k) == \E i \in 1..Len(obj) : obj[i].key = k

\* obj[k]
ObjGet(obj, k) ==
  IF HasKey(obj, ToKey(k))
  THEN obj[CHOOSE i \in 1..Len(obj) : obj[i].key = ToKey(k)].val
  ELSE Undefined

\* obj[k] = v: an existing property keeps its place
ObjSet(obj, k, v) ==
  IF HasKey(obj, ToKey(k))
  THEN [i \in 1..Len(obj) |->
          IF obj[i].key = ToKey(k) THEN [key |-> ToKey(k), val |-> v] ELSE obj[i]]
  ELSE Append(obj, [key |-> ToKey(k), val |-> v])

\* Array.prototype.find
RECURSIVE Find(_, _)
Find(s, q) ==
  IF s = <<>> THEN Undefined
  ELSE IF StartsWith(ToLowerCase(Head(s)), ToLowerCase(q)) THEN Head(s)
  ELSE Find(Tail(s), q)

(***************************************************************************)
(* The data the backend answers with.                                      *)
(***************************************************************************)
Me == <<"9", "0">>
IDs == <<<<"1">>, <<"2">>, <<"3">>, <<"4">>>>
GroupID == <<"9", "9">>

Alice == <<"A", "l", "i", "c", "e">>
alina == <<"a", "l", "i", "n", "a">>
Bob == <<"B", "o", "b">>
Work == <<"W", "o", "r", "k">>
Seven == <<"7">>
Seventy == <<"7", "0">>

\* the i-th contact of a friend list (user ids are unique within the list)
Contact(i, np) == [userID |-> IDs[i], name |-> np[1], fullName |-> np[2]]

RECURSIVE SeqsUpTo(_, _)
SeqsUpTo(S, n) ==
  IF n = 0 THEN {<<>>}
  ELSE LET shorter == SeqsUpTo(S, n - 1)
       IN  shorter \cup {Append(s, x) : s \in {t \in shorter : Len(t) = n - 1}, x \in S}

FriendListsOf(namePairs, n) ==
  {[i \in 1..Len(s) |-> Contact(i, s[i])] : s \in SeqsUpTo(namePairs, n)}

\* a thread list holds a thread once
ThreadListsOf(ids, names, n) ==
  {s \in SeqsUpTo([threadID : ids, name : names], n) :
     \A i, j \in 1..Len(s) : i # j => s[i].threadID # s[j].threadID}

(***************************************************************************)
(* Init: the Messer() constructor has run and start() is acquiring the     *)
(* credentials.                                                            *)
(***************************************************************************)
\* helpers.js: the files getCredentials reads
APP_STATE_FILEPATH == <<"./appstate.json">>
CREDS_FILEPATH == <<"./config.json">>

NoOp == [op |-> "none", arg |-> Undefined, outcome |-> "none",
         key |-> Undefined, id |-> Undefined, value |-> Undefined, cmd |-> 0]

Init ==
  /\ pc = "credentials"
  /\ api = FALSE
  /\ user = Null
  /\ userCache = <<>>
  /\ threadCache = <<>>
  /\ threadMap = <<>>
  /\ fetchUser = Null
  /\ fetchState = [status |-> "none", value |-> Null]
  /\ friends = <<>>
  /\ failedStep = "none"
  /\ reqCount = [getUserInfo |-> 0, getFriendsList |-> 0, getThreadList |-> 0,
                 getThreadInfo |-> 0]
  /\ terminal = <<>>
  /\ listening = FALSE
  /\ replStarted = FALSE
  /\ calls = <<>>
  /\ inflight = {}
  /\ cmds = <<>>
  /\ events = <<>>
  /\ credentials = [status |-> "pending", source |-> "none",
                    reads |-> <<APP_STATE_FILEPATH>>]
  /\ last = NoOp

\* log(line); a line is a one-element tuple, as an error value is
Log(line) == Append(terminal, line)

Did(op, arg, outcome) == [NoOp EXCEPT !.op = op, !.arg = arg, !.outcome = outcome]

\* a map (userCache, threadCache) with the entry k set to v
Put(map, k, v) == [x \in DOMAIN map \cup {k} |-> IF x = k THEN v ELSE map[x]]

(***************************************************************************)
(* cacheThread                                                             *)
(***************************************************************************)
\* cacheThread that stores the thread it is given, whatever is cached
CacheThread_LastWins(cache, thread) ==
  Put(cache, thread.threadID, [name |-> thread.name, threadID |-> thread.threadID])

CacheThread(cache, thread) ==
  IF thread.threadID \in DOMAIN cache
  THEN cache
  ELSE Put(cache, thread.threadID, [name |-> thread.name, threadID |-> thread.threadID])

\* threads.forEach(t => this.cacheThread(t))
RECURSIVE CacheThreads(_, _)
CacheThreads(cache, threads) ==
  IF threads = <<>> THEN cache
  ELSE CacheThreads(CacheThread(cache, Head(threads)), Tail(threads))

(***************************************************************************)
(* start, authenticate                                                     *)
(***************************************************************************)
\* getCredentials() resolved: authenticate logs and calls the login of the backend
StartAuthenticate ==
  /\ pc = "credentials"
  /\ pc' = "login"
  /\ terminal' = Log(<<"Logging in...">>)
  /\ credentials' = [credentials EXCEPT !.status = "resolved", !.source = "appState"]
  /\ last' = Did("authenticate", Undefined, "pending")
  /\ UNCHANGED <<api, user, userCache, threadCache, threadMap, fetchUser, fetchState,
                 friends, failedStep, reqCount, listening, replStarted, calls,
                 inflight, cmds, events>>

\* JSON.parse of the content of a file: undefined is converted to the text
\* "undefined", which is no JSON text, as a truncated array is none
ParseJSON(text) ==
  IF text = Undefined THEN [ok |-> FALSE, value |-> <<"SyntaxError">>]
  ELSE IF text = <<"[", "]">> THEN [ok |-> TRUE, value |-> <<>>]
  ELSE IF text = <<"[", "1", "]">> THEN [ok |-> TRUE, value |-> <<1>>]
  ELSE [ok |-> FALSE, value |-> <<"SyntaxError">>]

\* getCredentials: the callback of fs.readFile(APP_STATE_FILEPATH). With errA the
\* read of the credentials file is issued and the callback goes on, past the if,
\* to JSON.parse(appstate) of an undefined appstate: the SyntaxError is thrown in
\* the callback of fs, outside the promise, and ends the process before the second
\* read is answered. Without errA the promise resolves with the parsed session
\* token and start() goes on with authenticate.
ReadAppStateCb(errA, appstate) ==
  IF errA = Null /\ ParseJSON(appstate).ok
  THEN StartAuthenticate
  ELSE /\ pc = "credentials"
       /\ pc' = "crashed"
       /\ credentials' = [credentials EXCEPT
                            !.status = "faulted",
                            !.reads = IF errA # Null
                                      THEN Append(@, OrElse(Undefined, CREDS_FILEPATH))
                                      ELSE @]
       /\ last' = Did("getCredentials", errA, "SyntaxError")
       /\ UNCHANGED <<api, user, userCache, threadCache, threadMap, fetchUser,
                      fetchState, friends, failedStep, reqCount, terminal, listening,
                      replStarted, calls, inflight, cmds, events>>

\* the callback of facebook(credentials, ...); on success fetchCurrentUser starts
LoginCb(err) ==
  /\ pc = "login"
  /\ IF err # Null
     THEN /\ pc' = "failed"
          /\ terminal' = Log(<<"Failed to login">>)
          /\ failedStep' = "login"
          /\ last' = Did("authenticate", Undefined, "rejected")
          /\ UNCHANGED <<api, fetchUser, fetchState, reqCount>>
     ELSE /\ pc' = "userInfo"
          /\ api' = TRUE
          /\ terminal' = Log(<<"Fetching your details...">>)
          /\ fetchUser' = [userID |-> Me, name |-> Undefined]
          /\ fetchState' = [status |-> "pending", value |-> Null]
          /\ reqCount' = [reqCount EXCEPT !.getUserInfo = @ + 1]
          /\ last' = Did("fetchCurrentUser", Undefined, "pending")
          /\ UNCHANGED failedStep
  /\ UNCHANGED <<user, userCache, threadCache, threadMap, friends, listening,
                 replStarted, calls, inflight, cmds,
                 events, credentials>>

(***************************************************************************)
(* fetchCurrentUser                                                        *)
(***************************************************************************)
\* reject(err) of fetchCurrentUser: authenticate rejects and start logs the error
FetchRejected(step, err) ==
  /\ pc' = "failed"
  /\ fetchState' = [status |-> "rejected", value |-> err]
  /\ failedStep' = step
  /\ terminal' = Log(err)
  /\ last' = Did("fetchCurrentUser", Undefined, "rejected")

\* the callback of api.getUserInfo
GetUserInfoCb(err, data) ==
  /\ pc = "userInfo"
  /\ IF err # Null
     THEN /\ FetchRejected("getUserInfo", err)
          /\ UNCHANGED <<fetchUser, reqCount>>
     ELSE /\ pc' = "friends"
          /\ fetchUser' = [fetchUser EXCEPT !.name = data]
          /\ reqCount' = [reqCount EXCEPT !.getFriendsList = @ + 1]
          /\ last' = Did("getUserInfoCb", Undefined, "ok")
          /\ UNCHANGED <<fetchState, failedStep, terminal>>
  /\ UNCHANGED <<api, user, userCache, threadCache, threadMap, friends, listening,
                 replStarted, calls, inflight, cmds,
                 events, credentials>>

\* data.forEach(u => ...) on the name index
RECURSIVE IndexContacts(_, _)
IndexContacts(map, data) ==
  IF data = <<>> THEN map
  ELSE IndexContacts(ObjSet(map, OrElse(Head(data).name, Head(data).fullName),
                            Head(data).userID),
                     Tail(data))

\* data.forEach(u => ...) on the user cache
RECURSIVE CacheUsers(_, _)
CacheUsers(cache, data) ==
  IF data = <<>> THEN cache
  ELSE CacheUsers(Put(cache, Head(data).userID, Head(data)), Tail(data))

\* the callback without the return in front of reject(err): the thread list is
\* requested although the contact list failed
GetFriendsListCb_GoesOn(err, data) ==
  /\ pc = "friends"
  /\ pc' = "threads"
  /\ threadMap' = IF err # Null THEN threadMap ELSE IndexContacts(threadMap, data)
  /\ userCache' = IF err # Null THEN userCache ELSE CacheUsers(userCache, data)
  /\ friends' = IF err # Null THEN friends ELSE data
  /\ fetchState' = IF err # Null THEN [status |-> "rejected", value |-> err]
                   ELSE fetchState
  /\ failedStep' = IF err # Null THEN "getFriendsList" ELSE failedStep
  /\ reqCount' = [reqCount EXCEPT !.getThreadList = @ + 1]
  /\ last' = Did("getFriendsListCb", Undefined, "ok")
  /\ UNCHANGED <<api, user, threadCache, fetchUser, listening, replStarted, calls,
                 inflight, cmds, terminal, events, credentials>>

\* the callback of api.getFriendsList
GetFriendsListCb(err, data) ==
  /\ pc = "friends"
  /\ IF err # Null
     THEN /\ FetchRejected("getFriendsList", err)
          /\ UNCHANGED <<threadMap, userCache, friends, reqCount>>
     ELSE /\ pc' = "threads"
          /\ threadMap' = IndexContacts(threadMap, data)
          /\ userCache' = CacheUsers(userCache, data)
          /\ friends' = data
          /\ reqCount' = [reqCount EXCEPT !.getThreadList = @ + 1]
          /\ last' = Did("getFriendsListCb", Undefined, "ok")
          /\ UNCHANGED <<fetchState, failedStep, terminal>>
  /\ UNCHANGED <<api, user, threadCache, fetchUser, listening, replStarted, calls,
                 inflight, cmds, events, credentials>>

\* the callback of api.getThreadList; resolve(user) runs the continuations of
\* authenticate (this.user = user) and of start (log, api.listen, repl.start).
\* The argument threads is optional: <<>> when the backend passes none, <<list>>
\* when it passes a list.
GetThreadListCb(err, threads) ==
  /\ pc = "threads"
  /\ threadCache' = IF Len(threads) > 0
                    THEN CacheThreads(threadCache, threads[1])
                    ELSE threadCache
  /\ fetchState' = [status |-> "resolved", value |-> fetchUser]
  /\ failedStep' = IF err # Null THEN "getThreadList" ELSE failedStep
  /\ user' = fetchUser
  /\ terminal' = Log(<<"Successfully logged in">>)
  /\ listening' = TRUE
  /\ replStarted' = TRUE
  /\ pc' = "ready"
  /\ last' = Did("fetchCurrentUser", Undefined, "resolved")
  /\ UNCHANGED <<api, userCache, threadMap, fetchUser, friends, reqCount, calls,
                 inflight, cmds, events, credentials>>

(***************************************************************************)
(* getThreadByName                                                         *)
(***************************************************************************)
\* const threadName = Object.keys(this.threadMap).find(...)
MatchedName(map, q) == Find(ObjectKeys(map), q)

\* the lookup that writes the matched key over the stored name, empty or not
NameLookup_AlwaysRenames(map, cache, q) ==
  LET threadName == MatchedName(map, q)
      threadID == ObjGet(map, threadName)
      faults == \/ threadID \notin DOMAIN cache
                \/ cache[threadID].name = Undefined
  IN  [key |-> threadName, id |-> threadID, faults |-> faults,
       cache |-> IF ~faults
                 THEN [cache EXCEPT ![threadID].name = threadName]
                 ELSE cache]

\* the call on the name index map and the thread cache: the matched key, the
\* identifier it maps to, whether the call faults (it reads .name of undefined, or
\* .length of undefined) and the thread cache it leaves
NameLookup(map, cache, q) ==
  LET threadName == MatchedName(map, q)
      threadID == ObjGet(map, threadName)
      faults == \/ threadID \notin DOMAIN cache
                \/ cache[threadID].name = Undefined
  IN  [key |-> threadName, id |-> threadID, faults |-> faults,
       cache |-> IF ~faults /\ Len(cache[threadID].name) = 0
                 THEN [cache EXCEPT ![threadID].name = threadName]
                 ELSE cache]

GetThreadByName(q) ==
  /\ pc = "ready"
  /\ LET r == NameLookup(threadMap, threadCache, q)
     IN  /\ threadCache' = r.cache
         /\ last' = [op |-> "getThreadByName", arg |-> q,
                     outcome |-> IF r.faults THEN "TypeError" ELSE "returned",
                     key |-> r.key, id |-> r.id,
                     value |-> IF r.faults THEN Undefined ELSE r.cache[r.id],
                     cmd |-> 0]
  /\ UNCHANGED <<sessionVars, reqCount, terminal, calls, inflight, cmds>>

(***************************************************************************)
(* getThreadById. A call is an entry of calls: the identifier asked for    *)
(* and the state of the promise handed to the caller.                      *)
(***************************************************************************)
\* getThreadById without the look into the cache: every call asks the backend
GetThreadById_AlwaysFetches(threadID) ==
  /\ pc = "ready"
  /\ Len(calls) < MaxCalls
  /\ calls' = Append(calls, [threadID |-> threadID, status |-> "pending",
                             value |-> Undefined])
  /\ inflight' = inflight \cup {Len(calls) + 1}
  /\ reqCount' = [reqCount EXCEPT !.getThreadInfo = @ + 1]
  /\ last' = [Did("getThreadById", threadID, "pending") EXCEPT !.id = threadID]
  /\ UNCHANGED <<sessionVars, threadCache, terminal, cmds>>

GetThreadById(threadID) ==
  /\ pc = "ready"
  /\ Len(calls) < MaxCalls
  /\ IF threadID \in DOMAIN threadCache
     THEN /\ calls' = Append(calls, [threadID |-> threadID, status |-> "resolved",
                                     value |-> threadCache[threadID]])
          /\ last' = [Did("getThreadById", threadID, "resolved") EXCEPT
                        !.id = threadID, !.value = threadCache[threadID]]
          /\ UNCHANGED <<inflight, reqCount>>
     ELSE /\ calls' = Append(calls, [threadID |-> threadID, status |-> "pending",
                                     value |-> Undefined])
          /\ inflight' = inflight \cup {Len(calls) + 1}
          /\ reqCount' = [reqCount EXCEPT !.getThreadInfo = @ + 1]
          /\ last' = [Did("getThreadById", threadID, "pending") EXCEPT !.id = threadID]
  /\ UNCHANGED <<sessionVars, threadCache, terminal, cmds>>

\* the callback that asks the backend again when it answered with an error
GetThreadInfoCb_Retries(c, err, data) ==
  /\ c \in inflight
  /\ IF err # Null
     THEN /\ reqCount' = [reqCount EXCEPT !.getThreadInfo = @ + 1]
          /\ last' = [Did("getThreadInfoCb", calls[c].threadID, "retried") EXCEPT
                        !.id = calls[c].threadID, !.value = err, !.cmd = c]
          /\ UNCHANGED <<threadCache, calls, inflight>>
     ELSE /\ inflight' = inflight \ {c}
          /\ threadCache' = CacheThread(threadCache, data)
          /\ calls' = [calls EXCEPT ![c].status = "resolved", ![c].value = data]
          /\ last' = [Did("getThreadInfoCb", calls[c].threadID, "resolved") EXCEPT
                        !.id = data.threadID, !.value = data, !.cmd = c]
          /\ UNCHANGED reqCount
  /\ UNCHANGED <<sessionVars, terminal, cmds>>

\* the callback of api.getThreadInfo for the call c
GetThreadInfoCb(c, err, data) ==
  /\ c \in inflight
  /\ inflight' = inflight \ {c}
  /\ IF err # Null
     THEN /\ calls' = [calls EXCEPT ![c].status = "rejected", ![c].value = err]
          /\ last' = [Did("getThreadInfoCb", calls[c].threadID, "rejected") EXCEPT
                        !.id = calls[c].threadID, !.value = err, !.cmd = c]
          /\ UNCHANGED threadCache
     ELSE /\ threadCache' = CacheThread(threadCache, data)
          /\ calls' = [calls EXCEPT ![c].status = "resolved", ![c].value = data]
          /\ last' = [Did("getThreadInfoCb", calls[c].threadID, "resolved") EXCEPT
                        !.id = data.threadID, !.value = data, !.cmd = c]
  /\ UNCHANGED <<sessionVars, reqCount, terminal, cmds>>

(***************************************************************************)
(* The listener of api.listen. A delivery is an entry of events: the error *)
(* flag, the type of the event, what the listener did with it and the      *)
(* state of the handler it invoked.                                        *)
(***************************************************************************)
\* the types event-handlers registers a handler for
EventHandlers == {"message", "event"}

\* the listener that is served only when no command and no request is pending
ListenCb_WaitsForCommands(err, ev, fatal) ==
  /\ listening /\ pc = "ready"
  /\ Len(events) < MaxEvents
  /\ \A c \in DOMAIN cmds : cmds[c].state # "pending"
  /\ inflight = {}
  /\ IF err # Null
     THEN /\ events' = Append(events, [err |-> err, type |-> "none",
                                       outcome |-> "dropped", handler |-> "none"])
          /\ last' = Did("listenCb", err, "dropped")
          /\ pc' = pc
     ELSE IF ev.type \in EventHandlers
     THEN /\ events' = Append(events, [err |-> Null, type |-> ev.type,
                                       outcome |-> "routed", handler |-> "pending"])
          /\ last' = Did("listenCb", <<ev.type>>, "routed")
          /\ pc' = pc
     ELSE /\ events' = Append(events, [err |-> Null, type |-> ev.type,
                                       outcome |-> "TypeError", handler |-> "none"])
          /\ last' = Did("listenCb", <<ev.type>>, "TypeError")
          /\ pc' = IF fatal THEN "crashed" ELSE pc
  /\ UNCHANGED <<api, user, userCache, threadCache, threadMap, fetchUser, fetchState,
                 friends, failedStep, reqCount, terminal, listening, replStarted,
                 calls, inflight, cmds, credentials>>

\* the listener that gives up on a failure: the stream is closed
ListenCb_StopsOnError(err, ev, fatal) ==
  /\ listening /\ pc = "ready"
  /\ Len(events) < MaxEvents
  /\ IF err # Null
     THEN /\ events' = Append(events, [err |-> err, type |-> "none",
                                       outcome |-> "dropped", handler |-> "none"])
          /\ last' = Did("listenCb", err, "dropped")
          /\ pc' = pc
     ELSE IF ev.type \in EventHandlers
     THEN /\ events' = Append(events, [err |-> Null, type |-> ev.type,
                                       outcome |-> "routed", handler |-> "pending"])
          /\ last' = Did("listenCb", <<ev.type>>, "routed")
          /\ pc' = pc
     ELSE /\ events' = Append(events, [err |-> Null, type |-> ev.type,
                                       outcome |-> "TypeError", handler |-> "none"])
          /\ last' = Did("listenCb", <<ev.type>>, "TypeError")
          /\ pc' = IF fatal THEN "crashed" ELSE pc
  /\ listening' = (err = Null)
  /\ UNCHANGED <<api, user, userCache, threadCache, threadMap, fetchUser, fetchState,
                 friends, failedStep, reqCount, terminal, replStarted,
                 calls, inflight, cmds, credentials>>

\* (err, ev) => { if (err) return null; return eventHandlers[ev.type].call(this, ev) }
\* For a type without a handler undefined.call throws in the callback of the
\* backend: the backend swallows the TypeError or the process ends (fatal).
ListenCb(err, ev, fatal) ==
  /\ listening /\ pc = "ready"
  /\ Len(events) < MaxEvents
  /\ IF err # Null
     THEN /\ events' = Append(events, [err |-> err, type |-> "none",
                                       outcome |-> "dropped", handler |-> "none"])
          /\ last' = Did("listenCb", err, "dropped")
          /\ pc' = pc
     ELSE IF ev.type \in EventHandlers
     THEN /\ events' = Append(events, [err |-> Null, type |-> ev.type,
                                       outcome |-> "routed", handler |-> "pending"])
          /\ last' = Did("listenCb", <<ev.type>>, "routed")
          /\ pc' = pc
     ELSE /\ events' = Append(events, [err |-> Null, type |-> ev.type,
                                       outcome |-> "TypeError", handler |-> "none"])
          /\ last' = Did("listenCb", <<ev.type>>, "TypeError")
          /\ pc' = IF fatal THEN "crashed" ELSE pc
  /\ UNCHANGED <<api, user, userCache, threadCache, threadMap, fetchUser, fetchState,
                 friends, failedStep, reqCount, terminal, listening, replStarted,
                 calls, inflight, cmds, credentials>>

\* the handler invoked for the delivery e completes
EventHandlerDone(e) ==
  /\ pc = "ready"
  /\ e \in DOMAIN events
  /\ events[e].handler = "pending"
  /\ events' = [events EXCEPT ![e].handler = "done"]
  /\ last' = [Did("eventHandlerDone", <<events[e].type>>, "done") EXCEPT !.cmd = e]
  /\ UNCHANGED <<pc, api, user, userCache, threadCache, threadMap, fetchUser,
                 fetchState, friends, failedStep, reqCount, terminal, listening,
                 replStarted, calls, inflight, cmds, credentials>>

(***************************************************************************)
(* processCommand                                                          *)
(***************************************************************************)
\* String.prototype.trim
RECURSIVE TrimStart(_)
TrimStart(s) ==
  IF s # <<>> /\ Head(s) \in WhiteSpace THEN TrimStart(Tail(s)) ELSE s

RECURSIVE TrimEnd(_)
TrimEnd(s) ==
  IF s # <<>> /\ s[Len(s)] \in WhiteSpace THEN TrimEnd(SubSeq(s, 1, Len(s) - 1)) ELSE s

Trim(s) == TrimEnd(TrimStart(s))

\* String.prototype.replace(c, ""): the first occurrence of c is removed
RECURSIVE RemoveFirst(_, _)
RemoveFirst(s, c) ==
  IF s = <<>> THEN <<>>
  ELSE IF Head(s) = c THEN Tail(s)
  ELSE <<Head(s)>> \o RemoveFirst(Tail(s), c)

\* String.prototype.split(c)
RECURSIVE Split(_, _)
Split(s, c) ==
  IF \E i \in 1..Len(s) : s[i] = c
  THEN LET i == CHOOSE i \in 1..Len(s) : s[i] = c /\ \A j \in 1..(i - 1) : s[j] # c
       IN  <<SubSeq(s, 1, i - 1)>> \o Split(SubSeq(s, i + 1, Len(s)), c)
  ELSE <<s>>

\* the names the command registry holds (command-handlers)
help == <<"h", "e", "l", "p">>
read == <<"r", "e", "a", "d">>
Registry == {help, read}

\* getCommandHandler(name): the handler registered under the name, or undefined
GetCommandHandler(name) == IF name \in Registry THEN name ELSE Undefined

InvalidCommand == <<"Invalid command - check your syntax">>

NewCmd(rawCommand, state) ==
  [input |-> rawCommand, state |-> state, handler |-> Undefined,
   handlerArg |-> Undefined, cbArgs |-> <<>>]

DidCmd(op, rawCommand, outcome, c) ==
  [Did(op, rawCommand, outcome) EXCEPT !.cmd = c]

\* processCommand without the test for blank input
ProcessCommand_NoBlankTest(rawCommand) ==
  /\ replStarted
  /\ Len(cmds) < MaxCommands
  /\ LET args == Split(RemoveFirst(rawCommand, "\n"), " ")
         commandHandler == GetCommandHandler(args[1])
     IN  IF commandHandler = Undefined
         THEN /\ terminal' = Log(InvalidCommand)
              /\ cmds' = Append(cmds, NewCmd(rawCommand, "invalid"))
              /\ last' = DidCmd("processCommand", rawCommand, "invalid", Len(cmds) + 1)
         ELSE /\ cmds' = Append(cmds, [NewCmd(rawCommand, "pending") EXCEPT
                                         !.handler = commandHandler,
                                         !.handlerArg = rawCommand])
              /\ last' = DidCmd("processCommand", rawCommand, "pending", Len(cmds) + 1)
              /\ UNCHANGED terminal
  /\ UNCHANGED <<sessionVars, threadCache, reqCount, calls, inflight>>

\* processCommand without the test for a missing handler: undefined.call(...) throws
ProcessCommand_NoHandlerTest(rawCommand) ==
  /\ replStarted
  /\ Len(cmds) < MaxCommands
  /\ IF Len(Trim(rawCommand)) = 0
     THEN /\ cmds' = Append(cmds, NewCmd(rawCommand, "ignored"))
          /\ last' = DidCmd("processCommand", rawCommand, "ignored", Len(cmds) + 1)
     ELSE LET args == Split(RemoveFirst(rawCommand, "\n"), " ")
              commandHandler == GetCommandHandler(args[1])
          IN  IF commandHandler = Undefined
              THEN /\ cmds' = Append(cmds, NewCmd(rawCommand, "thrown"))
                   /\ last' = DidCmd("processCommand", rawCommand, "thrown",
                                     Len(cmds) + 1)
              ELSE /\ cmds' = Append(cmds, [NewCmd(rawCommand, "pending") EXCEPT
                                              !.handler = commandHandler,
                                              !.handlerArg = rawCommand])
                   /\ last' = DidCmd("processCommand", rawCommand, "pending",
                                     Len(cmds) + 1)
  /\ UNCHANGED <<sessionVars, threadCache, reqCount, terminal, calls, inflight>>

\* the read-eval loop evaluates a line: processCommand(rawCommand, cb)
ProcessCommand(rawCommand) ==
  /\ replStarted
  /\ Len(cmds) < MaxCommands
  /\ IF Len(Trim(rawCommand)) = 0
     THEN /\ cmds' = Append(cmds, NewCmd(rawCommand, "ignored"))
          /\ last' = DidCmd("processCommand", rawCommand, "ignored", Len(cmds) + 1)
          /\ UNCHANGED terminal
     ELSE LET args == Split(RemoveFirst(rawCommand, "\n"), " ")
              commandHandler == GetCommandHandler(args[1])
          IN  IF commandHandler = Undefined
              THEN /\ terminal' = Log(InvalidCommand)
                   /\ cmds' = Append(cmds, NewCmd(rawCommand, "invalid"))
                   /\ last' = DidCmd("processCommand", rawCommand, "invalid",
                                     Len(cmds) + 1)
              ELSE /\ cmds' = Append(cmds, [NewCmd(rawCommand, "pending") EXCEPT
                                              !.handler = commandHandler,
                                              !.handlerArg = rawCommand])
                   /\ last' = DidCmd("processCommand", rawCommand, "pending",
                                     Len(cmds) + 1)
                   /\ UNCHANGED terminal
  /\ UNCHANGED <<sessionVars, threadCache, reqCount, calls, inflight>>

\* the continuation without .catch: a rejection is neither logged nor answered
HandlerSettles_NoCatch(c, outcome, value) ==
  /\ c \in 1..Len(cmds)
  /\ cmds[c].state = "pending"
  /\ IF outcome = "resolved"
     THEN /\ terminal' = Log(value)
          /\ cmds' = [cmds EXCEPT ![c].state = "settled",
                                  ![c].cbArgs = Append(@, Null)]
     ELSE /\ cmds' = [cmds EXCEPT ![c].state = "thrown"]
          /\ UNCHANGED terminal
  /\ last' = [DidCmd("handlerSettled", cmds[c].input, outcome, c) EXCEPT
                !.value = value]
  /\ UNCHANGED <<sessionVars, threadCache, reqCount, calls, inflight>>

\* the promise of the handler of command c settles: .then logs the message, .catch
\* logs the error, and both call callback(null)
HandlerSettles(c, outcome, value) ==
  /\ c \in 1..Len(cmds)
  /\ cmds[c].state = "pending"
  /\ terminal' = Log(value)
  /\ cmds' = [cmds EXCEPT ![c].state = "settled", ![c].cbArgs = Append(@, Null)]
  /\ last' = [DidCmd("handlerSettled", cmds[c].input, outcome, c) EXCEPT
                !.value = value]
  /\ UNCHANGED <<sessionVars, threadCache, reqCount, calls, inflight>>

(***************************************************************************)
(* The session from start to the lookups by name.                          *)
(***************************************************************************)
Errors == {<<"ECONNRESET">>}
NamePairs == {<<Alice, Undefined>>, <<Undefined, alina>>, <<Seven, Undefined>>,
              <<Seventy, Undefined>>, <<Undefined, Undefined>>}
ThreadNames == {EmptyStr, Work}
Queries == {<<"a", "l", "i">>, <<"A", "L">>, <<"z">>}

FriendLists == FriendListsOf(NamePairs, MaxFriends)
ContactIDs == {IDs[i] : i \in 1..MaxFriends}
ThreadLists == ThreadListsOf(ContactIDs, ThreadNames, MaxThreads)
IndexedNames == {threadMap[i].key : i \in 1..Len(threadMap)}

Login == \E err \in Errors \cup {Null} : LoginCb(err)

UserInfo ==
  \/ \E err \in Errors : GetUserInfoCb(err, Undefined)
  \/ GetUserInfoCb(Null, Bob)

FriendsList ==
  \/ \E err \in Errors : GetFriendsListCb(err, Undefined)
  \/ \E data \in FriendLists : GetFriendsListCb(Null, data)

ThreadList ==
  \/ \E err \in Errors : GetThreadListCb(err, <<>>)
  \/ \E threads \in ThreadLists : GetThreadListCb(Null, <<threads>>)

LookupByName == \E q \in Queries \cup IndexedNames : GetThreadByName(q)

Next ==
  \/ StartAuthenticate
  \/ Login
  \/ UserInfo
  \/ FriendsList
  \/ ThreadList
  \/ LookupByName

Spec == Init /\ [][Next]_vars

(***************************************************************************)
(* Properties of fetchCurrentUser and getThreadByName, under Spec.         *)
(***************************************************************************)
Matches(k, q) == StartsWith(ToLowerCase(k), ToLowerCase(q))

\* the place of a key in the creation order of the properties
Position(obj, k) == CHOOSE i \in 1..Len(obj) : obj[i].key = k

\* the key a comes before the key b in Object.keys(obj)
ListedBefore(obj, a, b) ==
  \/ IsArrayIndex(a) /\ ~IsArrayIndex(b)
  \/ IsArrayIndex(a) /\ IsArrayIndex(b) /\ IndexLess(a, b)
  \/ ~IsArrayIndex(a) /\ ~IsArrayIndex(b) /\ Position(obj, a) < Position(obj, b)

\* the key a was created before the key b
CreatedBefore(obj, a, b) == Position(obj, a) < Position(obj, b)

SomeKeyMatches(q) == \E k \in IndexedNames : Matches(k, q)

ByName == last.op = "getThreadByName"

\* what the call gives back for the key it selected: the cached thread of the
\* identifier the key maps to, or a fault when there is none
ResultFollowsKey ==
  /\ last.id = ObjGet(threadMap, last.key)
  /\ IF last.id \in DOMAIN threadCache /\ threadCache[last.id].name # Undefined
     THEN last.outcome = "returned" /\ last.value = threadCache[last.id]
     ELSE last.outcome = "TypeError"

ContactKey(u) == ToKey(OrElse(u.name, u.fullName))

AllContactsIndexed ==
  \A i \in 1..Len(friends) :
    /\ HasKey(threadMap, ContactKey(friends[i]))
    /\ friends[i].userID \in DOMAIN userCache
    /\ userCache[friends[i].userID] = friends[i]

NoThreadRegistered == DOMAIN threadCache = {}

\* C4: every contact of the retrieved list is in the name index and the user cache
\* before the thread list is requested and before any thread is registered; when
\* the contact retrieval fails the thread list is never requested and no thread
\* is registered.
C4_ContactsBeforeThreads ==
  /\ pc \in {"credentials", "login", "userInfo", "friends"} =>
       reqCount.getThreadList = 0 /\ NoThreadRegistered
  /\ pc = "threads" => NoThreadRegistered
  /\ reqCount.getThreadList > 0 \/ ~NoThreadRegistered => AllContactsIndexed
  /\ failedStep = "getFriendsList" =>
       reqCount.getThreadList = 0 /\ NoThreadRegistered

C4_Witness ==
  /\ pc = "ready"
  /\ Len(friends) >= 2
  /\ ~NoThreadRegistered

\* C5: when a step of fetchCurrentUser fails (profile, contact list, thread list),
\* fetchCurrentUser rejects with that error instead of resolving with a user.
C5_AnyFailureRejects ==
  failedStep \in {"getUserInfo", "getFriendsList", "getThreadList"} =>
    fetchState.status = "rejected" /\ pc = "failed"

\* the names under which the contacts of the friend list were retrieved
ContactNames ==
  {OrElse(friends[i].name, friends[i].fullName) : i \in 1..Len(friends)} \ {Undefined}

\* C9: after authenticate has succeeded, getThreadByName(name) returns a thread for
\* every contact name of the friend list and issues no backend request.
C9_ContactNamesResolve ==
  ByName /\ failedStep = "none" /\ last.arg \in ContactNames =>
    last.outcome = "returned" /\ reqCount.getThreadInfo = 0

\* C10: when no key of the name index starts with the query, getThreadByName
\* reports NotFound to its caller and does not fault.
C10_NoMatchIsNotFound ==
  ByName /\ failedStep = "none" /\ ~SomeKeyMatches(last.arg) =>
    last.outcome = "NotFound"

\* C15: in every step each cached identifier stays cached with the identifier it
\* stores, and its stored name is the same afterwards unless it was empty and a
\* getThreadByName call set it to the key of the name index map that it matched.
C15_CacheOnlyGrows ==
  [][\A id \in DOMAIN threadCache :
       /\ id \in DOMAIN threadCache'
       /\ threadCache'[id].threadID = threadCache[id].threadID
       /\ \/ threadCache'[id].name = threadCache[id].name
          \/ /\ threadCache[id].name = EmptyStr
             /\ last'.op = "getThreadByName"
             /\ last'.key # Undefined
             /\ threadCache'[id].name = last'.key]_vars

\* the step is a getThreadByName call that matched a key and returned its thread
ByNameSucceeded ==
  /\ last'.op = "getThreadByName"
  /\ last'.outcome = "returned"
  /\ last'.key # Undefined

AskedIDs == {IDs[1], GroupID}

ThreadsLogin == LoginCb(Null)

ThreadsUserInfo == GetUserInfoCb(Null, Bob)

ThreadsFriendsList ==
  \E data \in FriendListsOf({<<Alice, Undefined>>}, 1) : GetFriendsListCb(Null, data)

ThreadsThreadList ==
  \E threads \in ThreadListsOf({IDs[1]}, ThreadNames, 1) :
    GetThreadListCb(Null, <<threads>>)

LookupById == \E id \in AskedIDs : GetThreadById(id)

ThreadInfo ==
  \E c \in inflight :
    \/ \E err \in Errors : GetThreadInfoCb(c, err, Undefined)
    \/ \E name \in ThreadNames :
         GetThreadInfoCb(c, Null, [threadID |-> calls[c].threadID, name |-> name])

ThreadsLookupByName == GetThreadByName(<<"a", "l", "i">>)

NextThreads ==
  \/ StartAuthenticate
  \/ ThreadsLogin
  \/ ThreadsUserInfo
  \/ ThreadsFriendsList
  \/ ThreadsThreadList
  \/ LookupById
  \/ ThreadInfo
  \/ ThreadsLookupByName

SpecThreads == Init /\ [][NextThreads]_vars

(***************************************************************************)
(* Properties of getThreadById and cacheThread, under SpecThreads.         *)
(***************************************************************************)
InflightFor(id) == {c \in inflight : calls[c].threadID = id}

\* C1: the calls of getThreadById for one identifier that is not cached never have
\* more than one getThreadInfo request outstanding between them.
C1_OneFetchPerId ==
  \A id \in AskedIDs : Cardinality(InflightFor(id)) <= 1

\* the step is a getThreadInfo callback that hands a thread to cacheThread
CacheThreadCalled == last'.op = "getThreadInfoCb" /\ last'.outcome = "resolved"

\* C2: cacheThread is first-write-wins. A call for an identifier that is not cached
\* stores the name it is given; a later call for the same identifier, whatever
\* name it carries, changes nothing in the thread cache.
C2_FirstWriteWins ==
  [][CacheThreadCalled =>
       IF last'.id \in DOMAIN threadCache
       THEN threadCache' = threadCache
       ELSE /\ DOMAIN threadCache' = DOMAIN threadCache \cup {last'.id}
            /\ threadCache'[last'.id] =
                 [name |-> last'.value.name, threadID |-> last'.id]
            /\ \A id \in DOMAIN threadCache : threadCache'[id] = threadCache[id]]_vars

\* a second cacheThread call has carried another name than the cached one
C2_Witness ==
  /\ last.op = "getThreadInfoCb"
  /\ last.outcome = "resolved"
  /\ last.id \in DOMAIN threadCache
  /\ last.value.name # threadCache[last.id].name
  /\ \E c \in 1..Len(calls) :
       /\ calls[c].status = "resolved"
       /\ calls[c].threadID = last.id
       /\ calls[c].value.name = threadCache[last.id].name

\* the step is a call of getThreadById: it adds its promise to calls
ByIdCalled == Len(calls') = Len(calls) + 1

\* C14: a call for a cached identifier resolves with the cached entry and asks the
\* backend for nothing; a call for an identifier that is not cached issues one
\* getThreadInfo request, and when a request is answered with a thread the thread
\* cache holds an entry for that thread in the state in which the promise is resolved.
C14_HitResolvesMissFetches ==
  [][/\ ByIdCalled =>
          LET c == Len(calls')
              id == calls'[c].threadID
          IN  /\ SubSeq(calls', 1, Len(calls)) = calls
              /\ threadCache' = threadCache
              /\ IF id \in DOMAIN threadCache
                 THEN /\ calls'[c].status = "resolved"
                      /\ calls'[c].value = threadCache[id]
                      /\ reqCount' = reqCount
                      /\ inflight' = inflight
                 ELSE /\ calls'[c].status = "pending"
                      /\ inflight' = inflight \cup {c}
                      /\ reqCount' = [reqCount EXCEPT !.getThreadInfo = @ + 1]
     /\ CacheThreadCalled =>
          /\ calls'[last'.cmd].status = "resolved"
          /\ calls'[last'.cmd].threadID \in DOMAIN threadCache'
          /\ last'.value.threadID \in DOMAIN threadCache']_vars

\* one call was resolved out of the cache without a request, another one by a
\* request whose thread is now cached
C14_Witness ==
  \E c, d \in DOMAIN calls :
    /\ calls[c].threadID = IDs[1] /\ calls[c].status = "resolved"
    /\ calls[d].threadID = GroupID /\ calls[d].status = "resolved"
    /\ GroupID \in DOMAIN threadCache
    /\ reqCount.getThreadInfo = 1

\* the step is a getThreadInfo callback that carries an error of the backend
FetchFailed == last'.op = "getThreadInfoCb" /\ last'.outcome # "resolved"

\* C16: when the backend answers the request of a call with an error, the promise
\* of that call is rejected with that error, the request is no longer outstanding
\* and no other one is issued, and the thread cache, the user cache and the name
\* index map are as before.
C16_FailedFetchRejectsOnce ==
  [][FetchFailed =>
       LET c == last'.cmd
       IN  /\ calls[c].status = "pending"
           /\ calls' = [calls EXCEPT ![c].status = "rejected", ![c].value = last'.value]
           /\ last'.value \in Errors
           /\ inflight' = inflight \ {c}
           /\ reqCount' = reqCount
           /\ threadCache' = threadCache
           /\ userCache' = userCache
           /\ threadMap' = threadMap]_vars

\* a call was rejected after one request, with a contact indexed and a thread cached
C16_Witness ==
  /\ last.op = "getThreadInfoCb" /\ last.outcome = "rejected"
  /\ calls[last.cmd].status = "rejected"
  /\ reqCount.getThreadInfo = 1
  /\ threadCache # <<>> /\ threadMap # <<>>

\* C20: a call of getThreadById that resolves hands out the identifier and the
\* name that the thread cache holds under that identifier in that state.
C20_ResolvesWithCachedEntry ==
  (last.op \in {"getThreadById", "getThreadInfoCb"} /\ last.outcome = "resolved") =>
    /\ last.id \in DOMAIN threadCache
    /\ last.value.threadID = threadCache[last.id].threadID
    /\ last.value.name = threadCache[last.id].name

(***************************************************************************)
(* The session with the read-eval loop: the lines it evaluates and the     *)
(* handlers settling in any order.                                         *)
(***************************************************************************)
NL == <<"\n">>
Lines == {<<>>, <<" ">>, <<"\t", " ">>,
          help, help \o <<" ", "m", "e">>, read \o <<" ", " ", "x">>,
          <<" ">> \o help, help \o <<"\t", "x">>, <<"/", "n", "o">>,
          <<"h", "e", "l">>, <<"x">> \o <<" ">> \o help}
Inputs == {line \o NL : line \in Lines}
Messages == {<<"sent">>}

CmdLogin == LoginCb(Null)

CmdUserInfo == GetUserInfoCb(Null, Bob)

CmdFriendsList == GetFriendsListCb(Null, <<>>)

CmdThreadList == GetThreadListCb(Null, <<<<>>>>)

ReadLine == \E rawCommand \in Inputs : ProcessCommand(rawCommand)

HandlerDone ==
  \E c \in 1..Len(cmds) :
    \/ \E message \in Messages : HandlerSettles(c, "resolved", message)
    \/ \E err \in Errors : HandlerSettles(c, "rejected", err)

NextCmd ==
  \/ StartAuthenticate
  \/ CmdLogin
  \/ CmdUserInfo
  \/ CmdFriendsList
  \/ CmdThreadList
  \/ ReadLine
  \/ HandlerDone

SpecCmd == Init /\ [][NextCmd]_vars

(***************************************************************************)
(* Properties of processCommand, under SpecCmd.                            *)
(***************************************************************************)
IsBlank(s) == \A i \in 1..Len(s) : s[i] \in WhiteSpace

\* the first token of a line: its first run of characters that are not whitespace
FirstToken(s) ==
  LET start == CHOOSE i \in 1..Len(s) :
                 s[i] \notin WhiteSpace /\ \A j \in 1..(i - 1) : s[j] \in WhiteSpace
      stop == CHOOSE k \in start..Len(s) :
                /\ \A j \in start..k : s[j] \notin WhiteSpace
                /\ k = Len(s) \/ s[k + 1] \in WhiteSpace
  IN  SubSeq(s, start, stop)

\* the line names a registered command: the name, then a space or the end of line
NamesCommand(s) ==
  \E name \in Registry : s = name \o NL \/ StartsWith(s, name \o <<" ">>)

Evaluated == last'.op = "processCommand"
NewCommand == cmds'[last'.cmd]
NoHandlerCalled == NewCommand.handler = Undefined /\ NewCommand.handlerArg = Undefined
NoCallback == NewCommand.cbArgs = <<>>

\* C6: for a line of whitespace only, processCommand invokes no handler, writes
\* nothing to the terminal and raises no error.
C6_BlankIgnored ==
  [][Evaluated /\ IsBlank(last'.arg) =>
       /\ terminal' = terminal
       /\ NewCommand.state = "ignored"
       /\ NoHandlerCalled]_vars

C6_Witness ==
  /\ last.op = "processCommand"
  /\ last.arg = <<"\t", " ", "\n">>
  /\ cmds[last.cmd].state = "ignored"

\* C7: for a line that is not blank and whose first token is not a registered
\* command name, processCommand writes the invalid-command line to the terminal,
\* executes no handler and does not throw.
C7_UnknownReported ==
  [][Evaluated /\ ~IsBlank(last'.arg) /\ FirstToken(last'.arg) \notin Registry =>
       /\ terminal' = Append(terminal, InvalidCommand)
       /\ NewCommand.state = "invalid"
       /\ NoHandlerCalled]_vars

C7_Witness ==
  /\ last.op = "processCommand"
  /\ last.arg = <<"/", "n", "o", "\n">>
  /\ cmds[last.cmd].state = "invalid"
  /\ terminal[Len(terminal)] = InvalidCommand

Settled == last'.op = "handlerSettled"

\* C8: for a line that names a registered command, the handler is invoked with the
\* full raw line; when it resolves or fails, the outcome is written to the
\* terminal and the callback of the loop is invoked with no error, once for the
\* command, and nothing is thrown.
C8_HandlerOutcomeReported ==
  [][/\ Evaluated /\ NamesCommand(last'.arg) =>
          /\ NewCommand.state = "pending"
          /\ NewCommand.handler \in Registry
          /\ NewCommand.handlerArg = last'.arg
          /\ NoCallback
          /\ terminal' = terminal
     /\ Settled =>
          /\ cmds[last'.cmd].cbArgs = <<>>
          /\ cmds'[last'.cmd].cbArgs = <<Null>>
          /\ cmds'[last'.cmd].state = "settled"
          /\ terminal' = Append(terminal, last'.value)
     /\ \A c \in 1..Len(cmds) :
          /\ Len(cmds'[c].cbArgs) <= 1
          /\ cmds[c].state = "settled" => cmds'[c] = cmds[c]]_vars

C8_Witness ==
  /\ last.op = "handlerSettled"
  /\ last.outcome = "rejected"
  /\ cmds[last.cmd].handlerArg = help \o <<" ", "m", "e", "\n">>
  /\ cmds[last.cmd].cbArgs = <<Null>>
  /\ terminal[Len(terminal)] \in Errors

\* C19: every evaluation that is complete (the line was blank, it named no command,
\* or the handler of its command has settled) has had the callback of the loop
\* invoked exactly once.
C19_CompletedInputAnswered ==
  \A c \in DOMAIN cmds :
    cmds[c].state \in {"ignored", "invalid", "settled"} => Len(cmds[c].cbArgs) = 1

(***************************************************************************)
(* The specification of start(): getCredentials, authenticate with its     *)
(* failures, and the listener once it is registered.                       *)
(***************************************************************************)
\* what fs.readFile answers for the session-token file: absent, a JSON text, a
\* truncated text
AppStateReads == {<<<<"ENOENT">>, Undefined>>, <<Null, <<"[", "]">>>>,
                  <<Null, <<"[", "1", "]">>>>, <<Null, <<"[">>>>}

\* what the backend delivers to the listener: a failure, or an event with its type
Deliveries == {[err |-> err, ev |-> [type |-> "none"]] : err \in Errors}
              \cup {[err |-> Null, ev |-> [type |-> t]] :
                      t \in EventHandlers \cup {"presence"}}

StartReadAppState == \E r \in AppStateReads : ReadAppStateCb(r[1], r[2])

StartLogin == \E err \in Errors \cup {Null} : LoginCb(err)

StartUserInfo ==
  \/ \E err \in Errors : GetUserInfoCb(err, Undefined)
  \/ GetUserInfoCb(Null, Bob)

StartFriendsList ==
  \/ \E err \in Errors : GetFriendsListCb(err, Undefined)
  \/ \E data \in FriendListsOf({<<Alice, Undefined>>}, 1) : GetFriendsListCb(Null, data)

StartThreadList ==
  \/ \E err \in Errors : GetThreadListCb(err, <<>>)
  \/ \E threads \in ThreadListsOf({IDs[1]}, {Work}, 1) :
       GetThreadListCb(Null, <<threads>>)

Deliver == \E d \in Deliveries, fatal \in BOOLEAN : ListenCb(d.err, d.ev, fatal)

EventHandled == \E e \in DOMAIN events : EventHandlerDone(e)

NextStart ==
  \/ StartReadAppState
  \/ StartLogin
  \/ StartUserInfo
  \/ StartFriendsList
  \/ StartThreadList
  \/ Deliver
  \/ EventHandled

SpecStart == Init /\ [][NextStart]_vars

\* the step is a delivery to the listener
Delivered == Len(events') = Len(events) + 1

\* C11: a delivery flagged as a transport failure invokes no handler, leaves the
\* earlier deliveries, the listener and the session as they are, and whenever an
\* event without the flag and of a registered type is delivered, before or after a
\* failure, the handler of its type is invoked.
C11_FailureDropsEventOnly ==
  [][Delivered =>
       LET d == events'[Len(events')]
       IN  /\ SubSeq(events', 1, Len(events)) = events
           /\ d.err # Null =>
                 /\ d.outcome = "dropped" /\ d.handler = "none"
                 /\ listening' /\ pc' = "ready"
           /\ (d.err = Null /\ d.type \in EventHandlers) =>
                 /\ d.outcome = "routed" /\ d.handler = "pending"
                 /\ last'.arg = <<d.type>>]_vars

\* an event was routed to its handler after a failure was delivered
C11_Witness ==
  \E i, j \in DOMAIN events :
    /\ i < j
    /\ events[i].outcome = "dropped"
    /\ events[j].outcome = "routed"

\* C12: the listener and the read-eval loop are started only when the login and
\* every step of the bulk fetch succeeded and the current user is stored.
C12_StartedOnlyAfterWholeFetch ==
  (listening \/ replStarted) =>
    /\ failedStep = "none"
    /\ fetchState.status = "resolved"
    /\ user # Null

\* the session-token file was not readable: the credentials file has been asked for
AppStateMissing == Len(credentials.reads) > 1

\* C13: when the session-token file is absent getCredentials raises no fault.
C13_FallsBackWithoutFault == AppStateMissing => credentials.status # "faulted"

(***************************************************************************)
(* The running session: the read-eval loop, the listener and the lookups   *)
(* by identifier, each with work that may stay pending.                    *)
(***************************************************************************)
RunLogin == LoginCb(Null)

RunUserInfo == GetUserInfoCb(Null, Bob)

RunFriendsList == GetFriendsListCb(Null, <<>>)

RunThreadList == GetThreadListCb(Null, <<<<>>>>)

RunReadLine == ProcessCommand(help \o NL)

RunHandlerDone ==
  \E c \in 1..Len(cmds), message \in Messages : HandlerSettles(c, "resolved", message)

RunDeliveries == {d \in Deliveries : d.err # Null \/ d.ev.type = "message"}

RunDeliver == \E d \in RunDeliveries : ListenCb(d.err, d.ev, FALSE)

RunEventHandled == \E e \in DOMAIN events : EventHandlerDone(e)

RunLookupById == GetThreadById(GroupID)

RunThreadInfo ==
  \E c \in inflight :
    GetThreadInfoCb(c, Null, [threadID |-> calls[c].threadID, name |-> Work])

NextRun ==
  \/ StartAuthenticate
  \/ RunLogin
  \/ RunUserInfo
  \/ RunFriendsList
  \/ RunThreadList
  \/ RunReadLine
  \/ RunHandlerDone
  \/ RunDeliver
  \/ RunEventHandled
  \/ RunLookupById
  \/ RunThreadInfo

SpecRun == Init /\ [][NextRun]_vars

PendingCommands == {c \in DOMAIN cmds : cmds[c].state = "pending"}
PendingEventHandlers == {e \in DOMAIN events : events[e].handler = "pending"}

\* C17: whatever commands, requests and event handlers are pending, the listener
\* can be served and a pending command can settle; an event delivered without a
\* failure is routed to its handler and leaves the commands and the requests as
\* they are, and a command that settles has its outcome written and its callback
\* invoked and leaves the deliveries as they are.
C17_SourcesDoNotBlock ==
  /\ []((listening /\ pc = "ready") =>
          /\ Len(events) < MaxEvents =>
                \A d \in RunDeliveries : ENABLED ListenCb(d.err, d.ev, FALSE)
          /\ \A c \in PendingCommands :
                ENABLED HandlerSettles(c, "resolved", <<"sent">>))
  /\ [][/\ (Delivered /\ events'[Len(events')].err = Null) =>
             /\ events'[Len(events')].outcome = "routed"
             /\ events'[Len(events')].handler = "pending"
             /\ cmds' = cmds /\ calls' = calls /\ inflight' = inflight
        /\ Settled =>
             /\ terminal' = Append(terminal, last'.value)
             /\ cmds'[last'.cmd].state = "settled"
             /\ cmds'[last'.cmd].cbArgs = <<Null>>
             /\ events' = events /\ calls' = calls /\ inflight' = inflight]_vars

\* an event has just been routed while a command and a request are pending, and a
\* command has settled with the handler of the first event still pending
C17_Witness ==
  /\ last.op = "listenCb" /\ last.outcome = "routed"
  /\ PendingCommands # {}
  /\ inflight # {}
  /\ \E c \in DOMAIN cmds : cmds[c].state = "settled" /\ cmds[c].cbArgs = <<Null>>
  /\ Len(events) = 2 /\ 1 \in PendingEventHandlers
====
